---- MODULE Spec2Model ----
(***************************************************************************)
(* TaskFlow backend (src/backend/server.py): the request handlers over the *)
(* two MongoDB collections db.tasks and db.users.  Every `await db....`    *)
(* is one atomic step of the store; a handler with several awaits is       *)
(* several steps, and the steps of concurrent requests interleave.         *)
(*                                                                         *)
(* Encodings.  An Optional value is a set: {} is None, {v} is the value v. *)
(* A str that the code orders (the isoformat() strings) is a sequence of   *)
(* character codes; a str that is only compared for equality is a TLA+     *)
(* string.  A calendar date is a day number counted from 2024-09-08, a     *)
(* datetime is [day, us]: midnight of that day plus us microseconds.       *)
(***************************************************************************)
EXTENDS Integers, Sequences, FiniteSets, TLC

\* ---------------------------------------------------------------- bounds
NumReqs == 2
MaxTasks == 2
MaxUsers == 3
MaxDay == 1
MaxUs == 1
MaxDue == 2

Reqs == 1..NumReqs
Days == 0..MaxDay
DueDays == 0..MaxDue
Times == [day : Days, us : 0..MaxUs]

\* ---------------------------------------------------------------- enums
TODO == "todo"
IN_PROGRESS == "in_progress"
COMPLETED == "completed"
TaskStatus == {TODO, IN_PROGRESS, COMPLETED}

LOW == "low"
MEDIUM == "medium"
HIGH == "high"
URGENT == "urgent"
TaskPriority == {LOW, MEDIUM, HIGH, URGENT}

None == {}
Some(v) == {v}
The(o) == CHOOSE v \in o : TRUE

\* ------------------------------------------------- datetime and isoformat
TimeLT(a, b) == a.day < b.day \/ (a.day = b.day /\ a.us < b.us)
TimeLE(a, b) == a = b \/ TimeLT(a, b)

\* %0Nd: n in decimal, zero-padded to width w, as character codes
RECURSIVE Pad(_, _)
Pad(n, w) == IF w = 0 THEN <<>> ELSE Append(Pad(n \div 10, w - 1), 48 + (n % 10))

\* date(2024, 9, 8) + timedelta(days=d)
DateOf(d) == [year |-> 2024, month |-> 9, day |-> 8 + d]

\* date.isoformat(): "YYYY-MM-DD"
IsoDate(d) ==
    LET x == DateOf(d)
    IN  Pad(x.year, 4) \o <<45>> \o Pad(x.month, 2) \o <<45>> \o Pad(x.day, 2)

\* datetime.isoformat(): "YYYY-MM-DDTHH:MM:SS[.ffffff]", the fraction is left
\* out when microsecond is 0
IsoDateTime(t) ==
    IsoDate(t.day) \o <<84>> \o Pad(0, 2) \o <<58>> \o Pad(0, 2) \o <<58>> \o Pad(0, 2)
        \o (IF t.us = 0 THEN <<>> ELSE <<46>> \o Pad(t.us, 6))

\* pydantic reads the stored strings back into date and datetime
ParseDate(s) == CHOOSE d \in 0..(MaxDay + MaxDue) : IsoDate(d) = s
ParseDateTime(s) ==
    CHOOSE t \in Times : IsoDateTime(t) = s

\* MongoDB's order on strings (simple binary comparison)
RECURSIVE StrLT(_, _)
StrLT(a, b) ==
    IF b = <<>> THEN FALSE
    ELSE IF a = <<>> THEN TRUE
    ELSE IF Head(a) # Head(b) THEN Head(a) < Head(b)
    ELSE StrLT(Tail(a), Tail(b))

\* Python truthiness of an Optional[str] / Optional[Enum] parameter
Truthy(o) == \E v \in o : v # ""

\* ---------------------------------------------------------------- state
VARIABLES
    tasks,      \* db.tasks: the stored task documents
    users,      \* db.users: the stored user documents
    now,        \* the last value datetime.utcnow() returned
    nextId,     \* number of uuid4() values drawn so far (ids are never reused)
    reqs,       \* reqs[r]: where request r is in its handler, and its locals
    resp,       \* the response the last step sent, NoResp if it sent none
    deleted     \* ids whose DELETE answered 200 (history)

vars == <<tasks, users, now, nextId, reqs, resp, deleted>>

Idle == [pc |-> "idle"]
NoResp == [op |-> "none"]

\* ---------------------------------------------------------------- models
\* a Task whose updated_at default is taken before its created_at default
Task_Swapped(data, id, c, u) ==
    [id |-> id, title |-> data.title, description |-> data.description,
     status |-> TODO, priority |-> data.priority, due_date |-> data.due_date,
     assigned_to |-> data.assigned_to, tags |-> data.tags,
     created_at |-> u, updated_at |-> c]

\* Task(**task_data.dict()): id, status and the two timestamps are defaults;
\* created_at's default_factory runs at c, updated_at's after it at u
Task(data, id, c, u) ==
    [id |-> id, title |-> data.title, description |-> data.description,
     status |-> TODO, priority |-> data.priority, due_date |-> data.due_date,
     assigned_to |-> data.assigned_to, tags |-> data.tags,
     created_at |-> c, updated_at |-> u]

dict_for_mongo(task) ==
    [task EXCEPT !.due_date = {IsoDate(d) : d \in task.due_date},
                 !.created_at = IsoDateTime(task.created_at),
                 !.updated_at = IsoDateTime(task.updated_at)]

\* Task(**doc): the response model built from a stored document
TaskOfDoc(doc) ==
    [id |-> doc.id, title |-> doc.title, description |-> doc.description,
     status |-> doc.status, priority |-> doc.priority,
     due_date |-> {ParseDate(s) : s \in doc.due_date},
     assigned_to |-> doc.assigned_to, tags |-> doc.tags,
     created_at |-> ParseDateTime(doc.created_at),
     updated_at |-> ParseDateTime(doc.updated_at)]

User(data, id, c) ==
    [id |-> id, name |-> data.name, email |-> data.email, role |-> data.role,
     created_at |-> c]

\* ---------------------------------------------------------------- store
\* the documents a {"id": task_id} filter matches
MatchId(coll, id) == {d \in coll : d.id = id}

\* find_one(filter): None or one matching document
FindOne(matching) == IF matching = {} THEN None ELSE Some(The(matching))

\* a delete_one that removes nothing
DeleteOne_Keep(coll, id) == coll

\* delete_one({"id": id})
DeleteOne(coll, id) == coll \ FindOne(MatchId(coll, id))

\* {"$set": update_dict} on one document
Set(doc, update_dict) ==
    [k \in DOMAIN doc \cup DOMAIN update_dict |->
        IF k \in DOMAIN update_dict THEN update_dict[k] ELSE doc[k]]

\* update_one({"id": id}, {"$set": update_dict}): no match is not an error
UpdateOne(coll, id, update_dict) ==
    LET m == FindOne(MatchId(coll, id))
    IN  (coll \ m) \cup {Set(d, update_dict) : d \in m}

\* count_documents(filter), given the documents the filter matches
CountDocuments(matching) == Cardinality(matching)

\* ---------------------------------------------------------------- clock
\* datetime.utcnow() can return t: the clock does not run backwards
Utcnow(t) == t \in Times /\ TimeLE(now, t)

\* a write to db.tasks is seen by the overviews in flight (history)
Disturb(rs, changed) ==
    [r \in Reqs |->
        IF changed /\ rs[r].pc = "overview" THEN [rs[r] EXCEPT !.quiet = FALSE]
        ELSE rs[r]]

\* -------------------------------------------------- POST /api/tasks
\* create_task: one insert_one
\* c and u are the two utcnow() values of the Task defaults
create_task(r, task_data, c, u) ==
    /\ reqs[r].pc = "idle"
    /\ nextId < MaxTasks
    /\ Utcnow(c) /\ u \in Times /\ TimeLE(c, u)
    /\ LET task == Task(task_data, nextId + 1, c, u)
       IN  /\ tasks' = tasks \cup {dict_for_mongo(task)}
           /\ resp' = [op |-> "create_task", r |-> r, code |-> 200, body |-> task]
    /\ now' = u
    /\ nextId' = nextId + 1
    /\ reqs' = Disturb(reqs, TRUE)
    /\ UNCHANGED <<users, deleted>>

\* -------------------------------------------------- GET /api/tasks
\* filter_dict: a key for each parameter that is truthy.  A document's
\* assigned_to is an Optional, so the value sought is Some(the string).
FilterDict(status, priority, assigned_to) ==
    [k \in {x \in {"status"} : Truthy(status)}
           \cup {x \in {"priority"} : Truthy(priority)}
           \cup {x \in {"assigned_to"} : Truthy(assigned_to)} |->
        CASE k = "status" -> The(status)
          [] k = "priority" -> The(priority)
          [] k = "assigned_to" -> assigned_to]

\* find(filter_dict): the documents equal to the filter on each of its keys
Find(coll, filter_dict) ==
    {d \in coll : \A k \in DOMAIN filter_dict : d[k] = filter_dict[k]}

\* sort("created_at", -1): the orders of S with created_at descending
SortDesc(S) ==
    {l \in [1..Cardinality(S) -> S] :
        /\ \A i, j \in DOMAIN l : i # j => l[i] # l[j]
        /\ \A i, j \in DOMAIN l : i < j => ~StrLT(l[i].created_at, l[j].created_at)}

\* to_list(length)
ToList(l, length) == [i \in 1..(IF Len(l) < length THEN Len(l) ELSE length) |-> l[i]]

get_tasks(r, status, priority, assigned_to) ==
    /\ reqs[r].pc = "idle"
    /\ \E l \in SortDesc(Find(tasks, FilterDict(status, priority, assigned_to))) :
        LET found == ToList(l, 1000)
        IN  resp' = [op |-> "get_tasks", r |-> r, code |-> 200,
                     status |-> status, priority |-> priority,
                     assigned_to |-> assigned_to,
                     body |-> [i \in DOMAIN found |-> TaskOfDoc(found[i])]]
    /\ UNCHANGED <<tasks, users, now, nextId, reqs, deleted>>

\* -------------------------------------------------- GET /api/tasks/{id}
get_task(r, task_id) ==
    /\ reqs[r].pc = "idle"
    /\ LET task == FindOne(MatchId(tasks, task_id))
       IN  resp' = IF task = None
                   THEN [op |-> "get_task", r |-> r, task_id |-> task_id, code |-> 404]
                   ELSE [op |-> "get_task", r |-> r, task_id |-> task_id, code |-> 200,
                         body |-> TaskOfDoc(The(task))]
    /\ UNCHANGED <<tasks, users, now, nextId, reqs, deleted>>

\* -------------------------------------------------- PUT /api/tasks/{id}
UpdateFields ==
    {"title", "description", "status", "priority", "due_date", "assigned_to", "tags"}

\* lines 134-140 with every field kept, the None ones too
UpdateDict_KeepNone(task_update, t) ==
    [k \in UpdateFields \cup {"updated_at"} |->
        CASE k = "updated_at" -> IsoDateTime(t)
          [] k = "due_date" -> {IsoDate(d) : d \in task_update.due_date}
          [] k = "assigned_to" -> task_update.assigned_to
          [] k = "tags" -> IF task_update.tags = None THEN <<>> ELSE The(task_update.tags)
          [] OTHER -> IF task_update[k] = None THEN "" ELSE The(task_update[k])]

\* lines 134-140: the fields that are not None, updated_at, due_date as a string
UpdateDict(task_update, t) ==
    [k \in {f \in UpdateFields : task_update[f] # None} \cup {"updated_at"} |->
        CASE k = "updated_at" -> IsoDateTime(t)
          [] k = "due_date" -> {IsoDate(d) : d \in task_update.due_date}
          [] k = "assigned_to" -> task_update.assigned_to
          [] OTHER -> The(task_update[k])]

\* line 130: find_one, 404 when there is no such task
update_task_find(r, task_id, task_update) ==
    /\ reqs[r].pc = "idle"
    /\ LET task == FindOne(MatchId(tasks, task_id))
       IN  IF task = None
           THEN /\ resp' = [op |-> "update_task", r |-> r, task_id |-> task_id,
                            code |-> 404]
                /\ reqs' = reqs
           ELSE /\ resp' = NoResp
                /\ reqs' = [reqs EXCEPT ![r] =
                        [pc |-> "update_build", task_id |-> task_id,
                         task_update |-> task_update]]
    /\ UNCHANGED <<tasks, users, now, nextId, deleted>>

\* lines 134-140: update_dict, t being the utcnow() of line 135
update_task_build(r, t) ==
    /\ reqs[r].pc = "update_build"
    /\ Utcnow(t)
    /\ reqs' = [reqs EXCEPT ![r] =
            [pc |-> "update_write", task_id |-> reqs[r].task_id,
             task_update |-> reqs[r].task_update,
             update_dict |-> UpdateDict(reqs[r].task_update, t)]]
    /\ now' = t
    /\ resp' = NoResp
    /\ UNCHANGED <<tasks, users, nextId, deleted>>

\* line 142: update_one
update_task_write(r) ==
    /\ reqs[r].pc = "update_write"
    /\ tasks' = UpdateOne(tasks, reqs[r].task_id, reqs[r].update_dict)
    /\ reqs' = [Disturb(reqs, tasks' # tasks) EXCEPT ![r] =
            [pc |-> "update_reread", task_id |-> reqs[r].task_id]]
    /\ resp' = NoResp
    /\ UNCHANGED <<users, now, nextId, deleted>>

\* lines 144-145: find_one again; Task(**None) is a TypeError, which the
\* framework answers with 500
update_task_reread(r) ==
    /\ reqs[r].pc = "update_reread"
    /\ LET updated_task == FindOne(MatchId(tasks, reqs[r].task_id))
       IN  resp' = IF updated_task = None
                   THEN [op |-> "update_task", r |-> r, task_id |-> reqs[r].task_id,
                         code |-> 500]
                   ELSE [op |-> "update_task", r |-> r, task_id |-> reqs[r].task_id,
                         code |-> 200, body |-> TaskOfDoc(The(updated_task))]
    /\ reqs' = [reqs EXCEPT ![r] = Idle]
    /\ UNCHANGED <<tasks, users, now, nextId, deleted>>

\* -------------------------------------------------- DELETE /api/tasks/{id}
delete_task(r, task_id) ==
    /\ reqs[r].pc = "idle"
    /\ tasks' = DeleteOne(tasks, task_id)
    /\ LET deleted_count == Cardinality(tasks) - Cardinality(tasks')
       IN  IF deleted_count = 0
           THEN /\ resp' = [op |-> "delete_task", r |-> r, task_id |-> task_id,
                            code |-> 404]
                /\ deleted' = deleted
           ELSE /\ resp' = [op |-> "delete_task", r |-> r, task_id |-> task_id,
                            code |-> 200]
                /\ deleted' = deleted \cup {task_id}
    /\ reqs' = Disturb(reqs, tasks' # tasks)
    /\ UNCHANGED <<users, now, nextId>>


\* -------------------------------------------------- POST /api/users
\* a lookup by name in place of the email
MatchEmail_ByName(coll, user_data) == {d \in coll : d.name = user_data.name}

\* the documents an {"email": user_data.email} filter matches
MatchEmail(coll, user_data) == {d \in coll : d.email = user_data.email}

\* lines 158-160: find_one by email, 400 when a user has it
create_user_find(r, user_data) ==
    /\ reqs[r].pc = "idle"
    /\ LET existing_user == FindOne(MatchEmail(users, user_data))
       IN  IF existing_user # None
           THEN /\ resp' = [op |-> "create_user", r |-> r, email |-> user_data.email,
                            code |-> 400]
                /\ reqs' = reqs
           ELSE /\ resp' = NoResp
                /\ reqs' = [reqs EXCEPT ![r] =
                        [pc |-> "create_user_insert", user_data |-> user_data]]
    /\ UNCHANGED <<tasks, users, now, nextId, deleted>>

\* lines 162-165: User(**user_dict), insert_one
create_user_insert(r, t) ==
    /\ reqs[r].pc = "create_user_insert"
    /\ nextId < MaxUsers
    /\ Utcnow(t)
    /\ LET user == User(reqs[r].user_data, nextId + 1, t)
       IN  /\ users' = users \cup {user}
           /\ resp' = [op |-> "create_user", r |-> r, email |-> user.email,
                       code |-> 200, body |-> user]
    /\ nextId' = nextId + 1
    /\ reqs' = [reqs EXCEPT ![r] = Idle]
    /\ now' = t
    /\ UNCHANGED <<tasks, deleted>>

\* -------------------------------------------------- GET /api/users
get_users(r) ==
    /\ reqs[r].pc = "idle"
    /\ resp' = [op |-> "get_users", r |-> r, code |-> 200, body |-> users]
    /\ UNCHANGED <<tasks, users, now, nextId, reqs, deleted>>

\* -------------------------------------------------- GET /api/analytics/overview
IsCompleted(d) == d.status = COMPLETED
IsInProgress(d) == d.status = IN_PROGRESS
IsTodo(d) == d.status = TODO
IsHigh(d) == d.priority = HIGH
IsUrgent(d) == d.priority = URGENT

\* the overdue filter with $lte in place of $lt
IsOverdue_Lte(d, today) ==
    /\ \E s \in d.due_date : StrLT(s, today) \/ s = today
    /\ d.status # COMPLETED

\* {"due_date": {"$lt": today}, "status": {"$ne": COMPLETED}}: $lt on a string
\* matches only string values (a null due_date never matches)
IsOverdue(d, today) ==
    /\ \E s \in d.due_date : StrLT(s, today)
    /\ d.status # COMPLETED

\* the rate without the total_tasks > 0 test
CompletionRate_NoGuard(completed_tasks, total_tasks) ==
    [num |-> completed_tasks * 100, den |-> total_tasks]

\* line 199: completed / total * 100 as the exact fraction num/den, 0 when
\* there is no task
CompletionRate(completed_tasks, total_tasks) ==
    IF total_tasks > 0
    THEN [num |-> completed_tasks * 100, den |-> total_tasks]
    ELSE [num |-> 0, den |-> 1]

\* the next count query of the overview, in the order of lines 175-182
OverviewNext ==
    [total_tasks |-> "completed_tasks", completed_tasks |-> "in_progress_tasks",
     in_progress_tasks |-> "todo_tasks", todo_tasks |-> "high_priority_tasks",
     high_priority_tasks |-> "urgent_priority_tasks",
     urgent_priority_tasks |-> "today"]

OverviewCount(k) ==
    CASE k = "total_tasks" -> CountDocuments(tasks)
      [] k = "completed_tasks" -> CountDocuments({d \in tasks : IsCompleted(d)})
      [] k = "in_progress_tasks" -> CountDocuments({d \in tasks : IsInProgress(d)})
      [] k = "todo_tasks" -> CountDocuments({d \in tasks : IsTodo(d)})
      [] k = "high_priority_tasks" -> CountDocuments({d \in tasks : IsHigh(d)})
      [] k = "urgent_priority_tasks" -> CountDocuments({d \in tasks : IsUrgent(d)})

\* line 175: the first count.  quiet is history: no write has changed db.tasks
\* since this count
overview_start(r) ==
    /\ reqs[r].pc = "idle"
    /\ reqs' = [reqs EXCEPT ![r] =
            [pc |-> "overview", at |-> OverviewNext.total_tasks,
             counts |-> [k \in {"total_tasks"} |-> OverviewCount(k)],
             quiet |-> TRUE]]
    /\ resp' = NoResp
    /\ UNCHANGED <<tasks, users, now, nextId, deleted>>

\* lines 176-182: the five counts that follow
overview_count(r) ==
    /\ reqs[r].pc = "overview"
    /\ reqs[r].at \in DOMAIN OverviewNext
    /\ reqs' = [reqs EXCEPT ![r] =
            [@ EXCEPT !.at = OverviewNext[reqs[r].at],
                      !.counts = [k \in DOMAIN @ \cup {reqs[r].at} |->
                                    IF k = reqs[r].at THEN OverviewCount(k) ELSE @[k]]]]
    /\ resp' = NoResp
    /\ UNCHANGED <<tasks, users, now, nextId, deleted>>

\* line 185: today, t being the utcnow()
overview_today(r, t) ==
    /\ reqs[r].pc = "overview"
    /\ reqs[r].at = "today"
    /\ Utcnow(t)
    /\ reqs' = [reqs EXCEPT ![r] =
            [pc |-> "overview", at |-> "overdue_tasks", counts |-> reqs[r].counts,
             quiet |-> reqs[r].quiet, today |-> IsoDate(t.day)]]
    /\ now' = t
    /\ resp' = NoResp
    /\ UNCHANGED <<tasks, users, nextId, deleted>>

\* lines 186-200: the overdue count and the response
overview_overdue(r) ==
    /\ reqs[r].pc = "overview"
    /\ reqs[r].at = "overdue_tasks"
    /\ LET c == reqs[r].counts
       IN  resp' = [op |-> "overview", r |-> r, code |-> 200,
                    quiet |-> reqs[r].quiet, today |-> reqs[r].today,
                    body |-> [total_tasks |-> c.total_tasks,
                              completed_tasks |-> c.completed_tasks,
                              in_progress_tasks |-> c.in_progress_tasks,
                              todo_tasks |-> c.todo_tasks,
                              high_priority_tasks |-> c.high_priority_tasks,
                              urgent_priority_tasks |-> c.urgent_priority_tasks,
                              overdue_tasks |->
                                  CountDocuments({d \in tasks :
                                                    IsOverdue(d, reqs[r].today)}),
                              completion_rate |->
                                  CompletionRate(c.completed_tasks, c.total_tasks)]]
    /\ reqs' = [reqs EXCEPT ![r] = Idle]
    /\ UNCHANGED <<tasks, users, now, nextId, deleted>>

\* ---------------------------------------------------------------- inputs
NoUpdate ==
    [title |-> None, description |-> None, status |-> None, priority |-> None,
     due_date |-> None, assigned_to |-> None, tags |-> None]

\* PUT bodies: the empty one, one field, several fields
TaskUpdates ==
    {NoUpdate,
     [NoUpdate EXCEPT !.title = Some("b")],
     [NoUpdate EXCEPT !.status = Some(COMPLETED), !.due_date = Some(0),
                      !.assigned_to = Some(""), !.tags = Some(<<>>)]}

StatusUpdates == {[NoUpdate EXCEPT !.status = Some(s)] : s \in {IN_PROGRESS, COMPLETED}}

ListUpdates ==
    {[NoUpdate EXCEPT !.status = Some(COMPLETED)],
     [NoUpdate EXCEPT !.assigned_to = Some("")]}

\* POST bodies
TaskCreates ==
    {[title |-> "a", description |-> "", priority |-> MEDIUM, due_date |-> None,
      assigned_to |-> None, tags |-> <<>>],
     [title |-> "a", description |-> "d", priority |-> HIGH, due_date |-> Some(1),
      assigned_to |-> Some("u1"), tags |-> <<"x">>]}

DatedCreates ==
    {[title |-> "a", description |-> "", priority |-> MEDIUM, due_date |-> None,
      assigned_to |-> None, tags |-> <<>>]}
    \cup {[title |-> "a", description |-> "", due_date |-> Some(d),
           priority |-> IF d = 0 THEN URGENT ELSE HIGH,
           assigned_to |-> None, tags |-> <<>>] : d \in DueDays}

UserCreates == [name : {"n1", "n2"}, email : {"e1", "e2"}, role : {"user"}]

\* GET /api/tasks query strings
TaskQueries ==
    {[status |-> None, priority |-> None, assigned_to |-> None],
     [status |-> Some(COMPLETED), priority |-> None, assigned_to |-> None],
     [status |-> None, priority |-> Some(HIGH), assigned_to |-> Some("u1")],
     [status |-> Some(TODO), priority |-> Some(MEDIUM), assigned_to |-> Some("u1")],
     [status |-> None, priority |-> None, assigned_to |-> Some("")]}

TaskIds == 1..MaxTasks

\* clock values: the microseconds of one day, the midnights of several days
Instants == {t \in Times : t.day = 0}
Midnights == {t \in Times : t.us = 0}

\* ---------------------------------------------------------------- specifications
Init ==
    /\ tasks = {}
    /\ users = {}
    /\ now = [day |-> 0, us |-> 0]
    /\ nextId = 0
    /\ reqs = [r \in Reqs |-> Idle]
    /\ resp = NoResp
    /\ deleted = {}

\* the task endpoints by id
Next ==
    \/ \E r \in Reqs, task_data \in TaskCreates, c, u \in Instants :
            create_task(r, task_data, c, u)
    \/ \E r \in Reqs, task_id \in TaskIds : get_task(r, task_id)
    \/ \E r \in Reqs, task_id \in TaskIds, task_update \in TaskUpdates :
            update_task_find(r, task_id, task_update)
    \/ \E r \in Reqs, t \in Instants : update_task_build(r, t)
    \/ \E r \in Reqs : update_task_write(r)
    \/ \E r \in Reqs : update_task_reread(r)
    \/ \E r \in Reqs, task_id \in TaskIds : delete_task(r, task_id)

Spec == Init /\ [][Next]_vars

\* the task list, with the writes that change what it returns
NextList ==
    \/ \E r \in Reqs, task_data \in TaskCreates, c, u \in Instants :
            create_task(r, task_data, c, u)
    \/ \E r \in Reqs, q \in TaskQueries : get_tasks(r, q.status, q.priority, q.assigned_to)
    \/ \E r \in Reqs, task_id \in TaskIds, task_update \in ListUpdates :
            update_task_find(r, task_id, task_update)
    \/ \E r \in Reqs, t \in Instants : update_task_build(r, t)
    \/ \E r \in Reqs : update_task_write(r)
    \/ \E r \in Reqs : update_task_reread(r)

SpecList == Init /\ [][NextList]_vars

\* the user endpoints; a user's created_at is read by no handler, and the
\* clock is read within one microsecond
NextUsers ==
    \/ \E r \in Reqs, user_data \in UserCreates : create_user_find(r, user_data)
    \/ \E r \in Reqs : create_user_insert(r, now)
    \/ \E r \in Reqs : get_users(r)

SpecUsers == Init /\ [][NextUsers]_vars

\* the analytics overview, with the task writes that change what it counts.
\* Overviews only read, so one of them is followed (request 1) and the other
\* requests are the writers.  The day changes under the overview's own clock
\* reading; the writers read the clock within the same second.
Writers == Reqs \ {1}

NextAnalytics ==
    \/ \E r \in Writers, task_data \in DatedCreates : create_task(r, task_data, now, now)
    \/ \E r \in Writers, task_id \in TaskIds, task_update \in StatusUpdates :
            update_task_find(r, task_id, task_update)
    \/ \E r \in Writers : update_task_build(r, now)
    \/ \E r \in Writers : update_task_write(r)
    \/ \E r \in Writers : update_task_reread(r)
    \/ \E r \in Writers, task_id \in TaskIds : delete_task(r, task_id)
    \/ overview_start(1)
    \/ overview_count(1)
    \/ \E t \in Midnights : overview_today(1, t)
    \/ overview_overdue(1)

SpecAnalytics == Init /\ [][NextAnalytics]_vars

\* ---------------------------------------------------------------- claims
Range(l) == {l[i] : i \in DOMAIN l}

\* C1: no two stored users have the same email, in every reachable state,
\* concurrent create-user requests included.
C1_UniqueEmail == \A u, v \in users : u.email = v.email => u = v

\* the step in which request r's update_one runs
UpdateWrites(r) == reqs[r].pc = "update_write" /\ reqs'[r].pc = "update_reread"

\* the fields a PUT body provides, and the value it provides for field k
Provided(task_update) == {k \in UpdateFields : task_update[k] # None}
ProvidedValue(task_update, k) ==
    IF k \in {"due_date", "assigned_to"} THEN task_update[k] ELSE The(task_update[k])

\* document e is document d with the provided fields written, and every other
\* field but updated_at as it was
WritesOnlyProvided(d, e, task_update) ==
    /\ DOMAIN e = DOMAIN d
    /\ \A k \in DOMAIN d \ (Provided(task_update) \cup {"updated_at"}) : e[k] = d[k]
    /\ \A k \in Provided(task_update) : TaskOfDoc(e)[k] = ProvidedValue(task_update, k)
    /\ e.id = d.id /\ e.created_at = d.created_at

\* C2 as claimed: the write of an update changes only the provided fields and
\* updated_at, keeps id and created_at, leaves the other tasks alone, and
\* updated_at does not go back, whatever other updates interleave.
C2_UpdateAdvances ==
    [][\A r \in Reqs : UpdateWrites(r) =>
        \A d \in MatchId(tasks, reqs[r].task_id) :
            \E e \in tasks' :
                /\ tasks' \ {e} = tasks \ {d}
                /\ WritesOnlyProvided(d, e, reqs[r].task_update)
                /\ TimeLE(ParseDateTime(d.updated_at), ParseDateTime(e.updated_at))]_vars

\* C2 as amended: the same, but updated_at becomes the time the handler read
\* before its write (line 135); it can be earlier than the updated_at an
\* interleaved update has stored.  A write that finds no task changes nothing.
C2_PartialUpdate ==
    [][\A r \in Reqs : UpdateWrites(r) =>
        /\ MatchId(tasks, reqs[r].task_id) = {} => tasks' = tasks
        /\ \A d \in MatchId(tasks, reqs[r].task_id) :
            \E e \in tasks' :
                /\ tasks' \ {e} = tasks \ {d}
                /\ WritesOnlyProvided(d, e, reqs[r].task_update)
                /\ e.updated_at = reqs[r].update_dict.updated_at]_vars

\* two updates of different fields of one task have interleaved and both
\* fields are in the answer of the first to finish
C2_Witness ==
    /\ resp.op = "update_task" /\ resp.code = 200
    /\ resp.body.title = "b" /\ resp.body.status = COMPLETED
    /\ \E r \in Reqs : reqs[r].pc = "update_reread" /\ reqs[r].task_id = resp.task_id

\* C3: an update-task request ends in 200 or in 404, in every interleaving.
C3_UpdateOutcome == resp.op = "update_task" => resp.code \in {200, 404}

\* C4: a delete of an id no task has answers 404 and changes nothing; a delete
\* of a stored id answers 200 and removes exactly that task; every later get
\* of a deleted id answers 404.
C4_Delete ==
    [][/\ resp'.op = "delete_task" =>
            /\ resp'.code \in {200, 404}
            /\ resp'.code = 404 =>
                /\ \A d \in tasks : d.id # resp'.task_id
                /\ tasks' = tasks
            /\ resp'.code = 200 =>
                /\ \E d \in tasks : d.id = resp'.task_id /\ tasks' = tasks \ {d}
                /\ \A d \in tasks' : d.id # resp'.task_id
       /\ (resp'.op = "get_task" /\ resp'.task_id \in deleted') => resp'.code = 404
       /\ \A d \in tasks' : d.id \notin deleted']_vars

\* a get of a deleted id, answered 404 while another task is stored
C4_Witness ==
    /\ resp.op = "get_task" /\ resp.task_id \in deleted /\ resp.code = 404
    /\ tasks # {}

\* C5: a create-user request whose email a stored user has fails with 400,
\* inserts nothing and leaves the users collection as it was.
C5_DuplicateEmail ==
    [][/\ \A r \in Reqs :
            (reqs[r].pc = "idle" /\ reqs'[r].pc = "create_user_insert") =>
                \A u \in users : u.email # reqs'[r].user_data.email
       /\ (resp'.op = "create_user" /\ reqs[resp'.r].pc = "idle") =>
            /\ resp'.code = 400
            /\ \E u \in users : u.email = resp'.email
            /\ users' = users
            /\ reqs'[resp'.r].pc = "idle"]_vars

\* a create-user answered 400, the user with that email stored
C5_Witness ==
    /\ resp.op = "create_user" /\ resp.code = 400
    /\ \E u \in users : u.email = resp.email

\* C6: updated_at >= created_at for every stored task, and created_at is
\* never rewritten.
C6_UpdatedAfterCreated ==
    /\ [](\A d \in tasks :
            TimeLE(ParseDateTime(d.created_at), ParseDateTime(d.updated_at)))
    /\ [][\A d \in tasks : \A e \in tasks' :
            e.id = d.id => e.created_at = d.created_at]_vars

\* an update has moved a task's updated_at past its created_at
C6_Witness ==
    /\ resp.op = "update_task" /\ resp.code = 200
    /\ TimeLT(resp.body.created_at, resp.body.updated_at)

\* the stored tasks that match every filter a query gives
Matching(status, priority, assigned_to) ==
    {d \in tasks :
        /\ status # None => d.status = The(status)
        /\ priority # None => d.priority = The(priority)
        /\ assigned_to # None => d.assigned_to = assigned_to}

\* C7: the list is exactly the stored tasks that match every given filter,
\* created_at descending, at most 1000.
C7_ListExact ==
    resp.op = "get_tasks" =>
        /\ Range(resp.body) =
            {TaskOfDoc(d) : d \in Matching(resp.status, resp.priority, resp.assigned_to)}
        /\ \A i, j \in DOMAIN resp.body : i # j => resp.body[i] # resp.body[j]
        /\ \A i, j \in DOMAIN resp.body :
            i < j => TimeLE(resp.body[j].created_at, resp.body[i].created_at)
        /\ Len(resp.body) <= 1000

\* C8: overdue_tasks is the number of stored tasks with a due_date before
\* the current date and a status other than completed.
C8_Overdue ==
    resp.op = "overview" =>
        resp.body.overdue_tasks =
            Cardinality({d \in tasks :
                /\ d.due_date # None
                /\ ParseDate(The(d.due_date)) < ParseDate(resp.today)
                /\ d.status # COMPLETED})

\* an overview that counts a task due yesterday and leaves out a completed
\* one due yesterday and one due today or later
C8_Witness ==
    /\ resp.op = "overview" /\ resp.body.overdue_tasks = 1
    /\ \E d \in tasks :
        /\ d.status # COMPLETED
        /\ \E s \in d.due_date : ParseDate(s) < ParseDate(resp.today)
    /\ \E d \in tasks :
        \/ d.status = COMPLETED /\ \E s \in d.due_date : ParseDate(s) < ParseDate(resp.today)
        \/ d.status # COMPLETED /\ \E s \in d.due_date : ParseDate(s) >= ParseDate(resp.today)

\* C9: when no write changes the tasks during the call, the overview's
\* total and per-status counts are those of the store, and completion_rate
\* is completed / total * 100, or 0 when there is no task.
C9_Overview ==
    (resp.op = "overview" /\ resp.quiet) =>
        LET b == resp.body
        IN  /\ b.total_tasks = Cardinality(tasks)
            /\ b.completed_tasks = Cardinality({d \in tasks : d.status = COMPLETED})
            /\ b.in_progress_tasks = Cardinality({d \in tasks : d.status = IN_PROGRESS})
            /\ b.todo_tasks = Cardinality({d \in tasks : d.status = TODO})
            /\ IF Cardinality(tasks) = 0
               THEN b.completion_rate = [num |-> 0, den |-> 1]
               ELSE /\ b.completion_rate.den > 0
                    /\ b.completion_rate.num * Cardinality(tasks) =
                        Cardinality({d \in tasks : d.status = COMPLETED}) * 100
                            * b.completion_rate.den

\* an undisturbed overview of two tasks, one of them completed
C9_Witness ==
    /\ resp.op = "overview" /\ resp.quiet
    /\ resp.body.total_tasks = 2 /\ resp.body.completed_tasks = 1
    /\ resp.body.completion_rate = [num |-> 100, den |-> 2]

\* C10: every overview is consistent in itself, whatever interleaves: the
\* three status counts add up to the total, completed <= total, and
\* completion_rate is between 0 and 100.
C10_Consistent ==
    resp.op = "overview" =>
        LET b == resp.body
        IN  /\ b.todo_tasks + b.in_progress_tasks + b.completed_tasks = b.total_tasks
            /\ b.completed_tasks <= b.total_tasks
            /\ b.completion_rate.num >= 0
            /\ b.completion_rate.num <= 100 * b.completion_rate.den

====
